---- MODULE Spec2Model ----
(***************************************************************************)
(* Model of feature_engineering.ipynb: a notebook that reads               *)
(* AB_NYC_Cleaned1.csv into a DataFrame, derives five columns cell by      *)
(* cell, and writes the DataFrame to AB_NYC_Featured.csv.                  *)
(*                                                                         *)
(* A CSV file is a header (sequence of column names) and positional        *)
(* records; a DataFrame is a sequence of column names and rows keyed by    *)
(* column name.  Integer cells are Int; float cells (price,                *)
(* price_per_night) are records [kind, num, den] holding an exact          *)
(* quotient, NaN or +/-inf; room_type cells are records [kind, s] holding  *)
(* a string or NaN.  Tables have at least one row.                         *)
(***************************************************************************)
EXTENDS Integers, Sequences, FiniteSets, TLC

VARIABLES input, df, pc, featured, writes

vars == <<input, df, pc, featured, writes>>

\* ------------------------------------------------------------- bounds
MaxRows == 2
MaxAvail == 366
MaxPrice == 3
MaxNights == 3

\* ------------------------------------------------------------- cells
NaN == [kind |-> "nan", num |-> 0, den |-> 1]
PosInf == [kind |-> "inf", num |-> 1, den |-> 1]
NegInf == [kind |-> "inf", num |-> -1, den |-> 1]

RECURSIVE GCD(_, _)
GCD(a, b) == IF b = 0 THEN a ELSE GCD(b, a % b)

Abs(n) == IF n < 0 THEN -n ELSE n

\* the float n/d (d > 0), kept as a quotient in lowest terms
Fin(n, d) ==
    LET g == GCD(Abs(n), d)
    IN  [kind |-> "fin", num |-> n \div g, den |-> d \div g]

Str(s) == [kind |-> "str", s |-> s]
NaNStr == [kind |-> "nan", s |-> ""]

\* ------------------------------------------------------------- columns
OriginalCols ==
    <<"number_of_reviews", "price", "minimum_nights", "availability_365", "room_type">>

DerivedCols ==
    <<"has_review", "price_per_night", "active_listing", "seasonal_availability",
      "is_entire_home">>

Range(s) == {s[i] : i \in 1..Len(s)}

\* ------------------------------------------------------------- DataFrame
EmptyFrame == [columns |-> <<>>, rows |-> <<>>]
NoFile == [header |-> <<>>, records |-> <<>>]

Cols(d) == Range(d.columns)

\* pd.read_csv: positional records become rows keyed by the header's names
read_csv(file) ==
    [columns |-> file.header,
     rows |-> [i \in 1..Len(file.records) |->
                 [c \in Range(file.header) |->
                    LET k == CHOOSE j \in 1..Len(file.header) : file.header[j] = c
                    IN  file.records[i][k]]]]

\* a column assignment that broadcasts the first value to every row
SetColumn_broadcast(d, name, values) ==
    [columns |-> IF name \in Cols(d) THEN d.columns ELSE Append(d.columns, name),
     rows |-> [i \in 1..Len(d.rows) |->
                 [c \in Cols(d) \cup {name} |->
                    IF c = name THEN values[1] ELSE d.rows[i][c]]]]

\* df[name] = values: an existing column is overwritten in place, a new one is
\* appended after the last column
SetColumn(d, name, values) ==
    [columns |-> IF name \in Cols(d) THEN d.columns ELSE Append(d.columns, name),
     rows |-> [i \in 1..Len(d.rows) |->
                 [c \in Cols(d) \cup {name} |->
                    IF c = name THEN values[i] ELSE d.rows[i][c]]]]

\* to_csv with its default index=True: the index is written as a first column
to_csv_index(d) ==
    [header |-> <<"">> \o d.columns,
     records |-> [i \in 1..Len(d.rows) |->
                    <<i - 1>> \o [k \in 1..Len(d.columns) |-> d.rows[i][d.columns[k]]]]]

\* df.to_csv(..., index=False): the columns in order, one record per row, and
\* no index column
to_csv(d) ==
    [header |-> d.columns,
     records |-> [i \in 1..Len(d.rows) |->
                    [k \in 1..Len(d.columns) |-> d.rows[i][d.columns[k]]]]]

\* ------------------------------------------------------------- per-row logic
\* the flag with >= for >
has_review_nonneg(x) == IF x >= 0 THEN 1 ELSE 0

\* lambda x: 1 if x > 0 else 0
has_review(x) == IF x > 0 THEN 1 ELSE 0

\* row['price'] / row['minimum_nights'], for a non-zero integer divisor
Divide(p, n) ==
    CASE p.kind = "nan" -> NaN
      [] p.kind = "inf" -> IF (p.num > 0) = (n > 0) THEN PosInf ELSE NegInf
      [] OTHER -> IF n > 0 THEN Fin(p.num, p.den * n) ELSE Fin(-p.num, p.den * (-n))

\* the guard against zero alone, a negative minimum_nights dividing
price_per_night_nonzero(row) ==
    IF row["minimum_nights"] # 0
    THEN Divide(row["price"], row["minimum_nights"])
    ELSE NaN

\* lambda row: row['price'] / row['minimum_nights'] if row['minimum_nights'] > 0
\*             else np.nan
price_per_night(row) ==
    IF row["minimum_nights"] > 0
    THEN Divide(row["price"], row["minimum_nights"])
    ELSE NaN

\* .replace([np.inf, -np.inf], np.nan)
replace_inf(v) == IF v.kind = "inf" THEN NaN ELSE v

\* the flag with >= for >
active_listing_nonneg(x) == IF x >= 0 THEN 1 ELSE 0

\* lambda x: 1 if x > 0 else 0
active_listing(x) == IF x > 0 THEN 1 ELSE 0

LowMax == 120
MediumMax == 240

\* the buckets with < for <=
categorize_availability_strict(x) ==
    IF x = 0 THEN "Not Available"
    ELSE IF x < LowMax THEN "Low"
    ELSE IF x < MediumMax THEN "Medium"
    ELSE "High"

\* the buckets without the x == 0 branch
categorize_availability_nozero(x) ==
    IF x <= LowMax THEN "Low"
    ELSE IF x <= MediumMax THEN "Medium"
    ELSE "High"

categorize_availability(x) ==
    IF x = 0 THEN "Not Available"
    ELSE IF x <= LowMax THEN "Low"
    ELSE IF x <= MediumMax THEN "Medium"
    ELSE "High"

\* the match ignoring case
is_entire_home_anycase(r) ==
    IF r.kind = "str" /\ r.s \in {"Entire home/apt", "entire home/apt"} THEN 1 ELSE 0

\* (df['room_type'] == 'Entire home/apt').astype(int)
is_entire_home(r) == IF r.kind = "str" /\ r.s = "Entire home/apt" THEN 1 ELSE 0

\* ------------------------------------------------------------- input files
Row(reviews, price, nights, avail, room) ==
    [c \in Range(OriginalCols) |->
       CASE c = "number_of_reviews" -> reviews
         [] c = "price" -> price
         [] c = "minimum_nights" -> nights
         [] c = "availability_365" -> avail
         [] c = "room_type" -> room]

BaseRow == Row(2, Fin(100, 1), 2, 200, Str("Private room"))

\* rows for the tables of several rows: number_of_reviews and minimum_nights
\* both 0 or both 2, availability_365 0 or 200, room_type matching or missing
RowSamples ==
    {Row(k, Fin(100, 1), k, a, t) :
        k \in {0, 2}, a \in {0, 200},
        t \in {Str("Entire home/apt"), NaNStr}}

SampleTables ==
    UNION {[1..k -> RowSamples] : k \in 1..MaxRows}

\* one row, availability_365 over its whole range and one value either side
AvailTables ==
    {<<[BaseRow EXCEPT !["availability_365"] = a]>> : a \in -1..MaxAvail}

\* one row, price and minimum_nights over small ranges
PriceTables ==
    {<<[BaseRow EXCEPT !["price"] = p, !["minimum_nights"] = n]>> :
        p \in {Fin(k, 1) : k \in 0..MaxPrice} \cup {NaN, PosInf},
        n \in -1..MaxNights}

\* one row, room_type over strings near the matched one
RoomTables ==
    {<<[BaseRow EXCEPT !["room_type"] = t]>> :
        t \in {Str("Entire home/apt"), Str("entire home/apt"), Str("Entire home"),
               Str("Shared room"), NaNStr}}

Tables == SampleTables \cup AvailTables \cup PriceTables \cup RoomTables

\* a column the file holds besides the five the notebook reads: an unrelated
\* one, or one already named like a derived column
ExtraNames == {"id"} \cup Range(DerivedCols)

ExtraCell(c, i) ==
    CASE c = "id" -> i
      [] c = "has_review" -> 1
      [] c = "price_per_night" -> Fin(7, 1)
      [] c = "active_listing" -> 1
      [] c = "seasonal_availability" -> "Low"
      [] c = "is_entire_home" -> 1

\* the headers: the five columns, or four of them, or the five and an extra one
Headers ==
    {<<>> \o OriginalCols}
    \cup {SelectSeq(OriginalCols, LAMBDA c : c # m) : m \in Range(OriginalCols)}
    \cup {<<e>> \o OriginalCols : e \in ExtraNames}

CsvFile(header, table) ==
    [header |-> header,
     records |-> [i \in 1..Len(table) |->
                    [k \in 1..Len(header) |->
                       IF header[k] \in Range(OriginalCols)
                       THEN table[i][header[k]]
                       ELSE ExtraCell(header[k], i)]]]

Init ==
    /\ input \in {CsvFile(h, t) : h \in Headers, t \in Tables}
    /\ df = EmptyFrame
    /\ pc = "Load"
    /\ featured = NoFile
    /\ writes = 0

\* ------------------------------------------------------------- cells of the notebook
Stages ==
    <<"Load", "has_review", "price_per_night", "active_listing",
      "seasonal_availability", "is_entire_home", "Persist", "done">>

StageIndex(s) == CHOOSE k \in 1..Len(Stages) : Stages[k] = s

\* the order with the is_entire_home cell left out
NextStage_skip(s) ==
    IF s = "seasonal_availability" THEN "Persist" ELSE Stages[StageIndex(s) + 1]

NextStage(s) == Stages[StageIndex(s) + 1]

\* a run that goes on to the next cell after a cell raised
Abort_continue ==
    /\ pc' = NextStage(pc)
    /\ UNCHANGED <<input, df, featured, writes>>

\* a cell that raises stops the run: no later cell executes
Abort ==
    /\ pc' = "failed"
    /\ UNCHANGED <<input, df, featured, writes>>

Derive(d) ==
    /\ df' = d
    /\ pc' = NextStage(pc)
    /\ UNCHANGED <<input, featured, writes>>

Load ==
    /\ pc = "Load"
    /\ df' = read_csv(input)
    /\ pc' = NextStage(pc)
    /\ UNCHANGED <<input, featured, writes>>

\* df['has_review'] = df['number_of_reviews'].apply(...)
cell_has_review(d) ==
    SetColumn(d, "has_review",
              [i \in 1..Len(d.rows) |-> has_review(d.rows[i]["number_of_reviews"])])

HasReview ==
    /\ pc = "has_review"
    /\ IF "number_of_reviews" \in Cols(df)
       THEN Derive(cell_has_review(df))
       ELSE Abort

\* row['price'] is read only for the rows whose minimum_nights is positive
PriceKeyError(d) ==
    \/ "minimum_nights" \notin Cols(d)
    \/ /\ "price" \notin Cols(d)
       /\ \E i \in 1..Len(d.rows) : d.rows[i]["minimum_nights"] > 0

\* df['price_per_night'] = df.apply(..., axis=1), then the replace of +/-inf
cell_price_per_night(d) ==
    SetColumn(d, "price_per_night",
              [i \in 1..Len(d.rows) |-> replace_inf(price_per_night(d.rows[i]))])

PricePerNight ==
    /\ pc = "price_per_night"
    /\ IF ~PriceKeyError(df)
       THEN Derive(cell_price_per_night(df))
       ELSE Abort

\* df['active_listing'] = df['availability_365'].apply(...)
cell_active_listing(d) ==
    SetColumn(d, "active_listing",
              [i \in 1..Len(d.rows) |-> active_listing(d.rows[i]["availability_365"])])

ActiveListing ==
    /\ pc = "active_listing"
    /\ IF "availability_365" \in Cols(df)
       THEN Derive(cell_active_listing(df))
       ELSE Abort

\* df['seasonal_availability'] = df['availability_365'].apply(categorize_availability)
cell_seasonal_availability(d) ==
    SetColumn(d, "seasonal_availability",
              [i \in 1..Len(d.rows) |->
                 categorize_availability(d.rows[i]["availability_365"])])

SeasonalAvailability ==
    /\ pc = "seasonal_availability"
    /\ IF "availability_365" \in Cols(df)
       THEN Derive(cell_seasonal_availability(df))
       ELSE Abort

\* df['is_entire_home'] = (df['room_type'] == 'Entire home/apt').astype(int)
cell_is_entire_home(d) ==
    SetColumn(d, "is_entire_home",
              [i \in 1..Len(d.rows) |-> is_entire_home(d.rows[i]["room_type"])])

IsEntireHome ==
    /\ pc = "is_entire_home"
    /\ IF "room_type" \in Cols(df)
       THEN Derive(cell_is_entire_home(df))
       ELSE Abort

Persist ==
    /\ pc = "Persist"
    /\ featured' = to_csv(df)
    /\ writes' = writes + 1
    /\ pc' = NextStage(pc)
    /\ UNCHANGED <<input, df>>

Next ==
    \/ Load
    \/ HasReview
    \/ PricePerNight
    \/ ActiveListing
    \/ SeasonalAvailability
    \/ IsEntireHome
    \/ Persist

Spec == Init /\ [][Next]_vars

\* the cells run one after another without suspension: a cell that can run, runs
FairSpec == Spec /\ WF_vars(Next)

\* ------------------------------------------------------------- properties
Idx == 1..Len(df.rows)

WellFormed == Range(OriginalCols) \subseteq Range(input.header)

\* column c of df holds what the notebook's cell of that name computed
Derived(c) ==
    /\ c \in Cols(df)
    /\ IF pc = "failed"
       THEN c \notin Range(input.header)
       ELSE StageIndex(pc) > StageIndex(c)

\* C1: every availability_365 in [0,365] gets exactly the label of its bucket:
\* 0 "Not Available", 1..120 "Low", 121..240 "Medium", 241..365 "High"
C1_Buckets ==
    Derived("seasonal_availability") =>
        \A i \in Idx :
            LET x == df.rows[i]["availability_365"]
                l == df.rows[i]["seasonal_availability"]
            IN  x \in 0..365 =>
                  /\ l \in {"Not Available", "Low", "Medium", "High"}
                  /\ (l = "Not Available") = (x = 0)
                  /\ (l = "Low") = (x \in 1..120)
                  /\ (l = "Medium") = (x \in 121..240)
                  /\ (l = "High") = (x \in 241..365)

C1_Witness ==
    /\ Derived("seasonal_availability")
    /\ \E i \in Idx :
          /\ df.rows[i]["availability_365"] = 240
          /\ df.rows[i]["seasonal_availability"] = "Medium"

\* C2: price_per_night is missing when minimum_nights <= 0, is the quotient
\* price / minimum_nights when minimum_nights > 0 and that quotient is finite,
\* and is never infinite (an infinite quotient is missing too)
C2_PricePerNight ==
    Derived("price_per_night") =>
        \A i \in Idx :
            LET n == df.rows[i]["minimum_nights"]
                v == df.rows[i]["price_per_night"]
            IN  /\ v.kind # "inf"
                /\ n <= 0 => v.kind = "nan"
                /\ (n > 0 /\ "price" \in Cols(df)) =>
                      LET p == df.rows[i]["price"]
                      IN  /\ p.kind = "fin" =>
                                /\ v.kind = "fin"
                                /\ v.num * n * p.den = p.num * v.den
                          /\ p.kind # "fin" => v.kind = "nan"

C2_Witness ==
    /\ Derived("price_per_night")
    /\ \E i \in Idx :
          /\ df.rows[i]["minimum_nights"] = 2
          /\ df.rows[i]["price"] = Fin(3, 1)
          /\ df.rows[i]["price_per_night"] = [kind |-> "fin", num |-> 3, den |-> 2]

\* C3: has_review is 0 or 1, and is 1 exactly when number_of_reviews > 0
C3_HasReview ==
    Derived("has_review") =>
        \A i \in Idx :
            /\ df.rows[i]["has_review"] \in {0, 1}
            /\ (df.rows[i]["has_review"] = 1) = (df.rows[i]["number_of_reviews"] > 0)

C3_Witness ==
    /\ Derived("has_review")
    /\ \E i, j \in Idx :
          /\ df.rows[i]["number_of_reviews"] = 0 /\ df.rows[i]["has_review"] = 0
          /\ df.rows[j]["number_of_reviews"] = 2 /\ df.rows[j]["has_review"] = 1

\* C4: active_listing is 0 or 1, and is 1 exactly when availability_365 > 0
C4_ActiveListing ==
    Derived("active_listing") =>
        \A i \in Idx :
            /\ df.rows[i]["active_listing"] \in {0, 1}
            /\ (df.rows[i]["active_listing"] = 1) = (df.rows[i]["availability_365"] > 0)

C4_Witness ==
    /\ Derived("active_listing")
    /\ \E i, j \in Idx :
          /\ df.rows[i]["availability_365"] = 0 /\ df.rows[i]["active_listing"] = 0
          /\ df.rows[j]["availability_365"] = 200 /\ df.rows[j]["active_listing"] = 1

\* C5: is_entire_home is 0 or 1, and is 1 exactly when room_type is the string
\* "Entire home/apt"; any other string and a missing room_type give 0
C5_IsEntireHome ==
    Derived("is_entire_home") =>
        \A i \in Idx :
            /\ df.rows[i]["is_entire_home"] \in {0, 1}
            /\ (df.rows[i]["is_entire_home"] = 1)
                  = (df.rows[i]["room_type"] = Str("Entire home/apt"))

C5_Witness ==
    /\ Derived("is_entire_home")
    /\ \E i, j \in Idx :
          /\ df.rows[i]["room_type"] = NaNStr /\ df.rows[i]["is_entire_home"] = 0
          /\ df.rows[j]["room_type"] = Str("Entire home/apt")
          /\ df.rows[j]["is_entire_home"] = 1

\* C10: for availability_365 in [0,365], active_listing is 0 exactly when
\* seasonal_availability is "Not Available"
C10_Consistent ==
    (Derived("active_listing") /\ Derived("seasonal_availability")) =>
        \A i \in Idx :
            df.rows[i]["availability_365"] \in 0..365 =>
                (df.rows[i]["active_listing"] = 0)
                    = (df.rows[i]["seasonal_availability"] = "Not Available")

C10_Witness ==
    /\ Derived("active_listing") /\ Derived("seasonal_availability")
    /\ \E i, j \in Idx :
          /\ df.rows[i]["availability_365"] = 0
          /\ df.rows[i]["active_listing"] = 0
          /\ df.rows[i]["seasonal_availability"] = "Not Available"
          /\ df.rows[j]["availability_365"] = 200
          /\ df.rows[j]["active_listing"] = 1
          /\ df.rows[j]["seasonal_availability"] = "Medium"

\* C6 as stated: for any input, the written table has the input's row count and
\* exactly five columns more than the input
C6_AnyInput ==
    writes > 0 =>
        /\ Len(featured.records) = Len(input.records)
        /\ Len(featured.header) = Len(input.header) + 5

NoDerivedName == Range(input.header) \cap Range(DerivedCols) = {}

\* C6 amended: for an input none of whose columns is named like a derived column,
\* the written table has the input's row count, and its columns are the input's
\* followed by the five derived ones
C6_FreshNames ==
    (writes > 0 /\ NoDerivedName) =>
        /\ Len(featured.records) = Len(input.records)
        /\ Len(featured.header) = Len(input.header) + 5
        /\ featured.header = input.header \o DerivedCols
        /\ \A i \in 1..Len(featured.records) :
              Len(featured.records[i]) = Len(input.header) + 5

C6_Witness ==
    /\ writes = 1
    /\ input.header[1] = "id"
    /\ Len(input.records) = MaxRows
    /\ Len(featured.records) = MaxRows
    /\ Len(featured.header) = 11

\* C7, frame: a cell changes no column but the one it derives, and no row count
FrameStep ==
    pc # "Load" =>
        /\ Len(df'.rows) = Len(df.rows)
        /\ Cols(df) \subseteq Cols(df')
        /\ \A i \in Idx :
              \A c \in Cols(df) \ {pc} : df'.rows[i][c] = df.rows[i][c]

SameOriginals(i, j) ==
    \A c \in Range(OriginalCols) \cap Cols(df) : df.rows[i][c] = df.rows[j][c]

\* the table as loaded, cut down to its row i
OneRow(i) ==
    [columns |-> input.header, rows |-> <<read_csv(input).rows[i]>>]

\* the derived columns of the one-row table, each from its own cell
Alone(i, c) ==
    CASE c = "has_review" -> cell_has_review(OneRow(i)).rows[1][c]
      [] c = "price_per_night" -> cell_price_per_night(OneRow(i)).rows[1][c]
      [] c = "active_listing" -> cell_active_listing(OneRow(i)).rows[1][c]
      [] c = "seasonal_availability" -> cell_seasonal_availability(OneRow(i)).rows[1][c]
      [] c = "is_entire_home" -> cell_is_entire_home(OneRow(i)).rows[1][c]

\* C7, locality: a row's derived values are those it gets in a table that holds
\* that row alone, and two rows with equal original fields have equal derived
\* values wherever they stand
RowLocal ==
    \A i, j \in Idx :
        \A c \in Range(DerivedCols) :
            Derived(c) =>
                /\ df.rows[i][c] = Alone(i, c)
                /\ SameOriginals(i, j) => df.rows[i][c] = df.rows[j][c]

\* C7: every derivation leaves the original and the previously derived columns
\* of every row unchanged, and a row's derived values depend on that row alone
C7_Frame == [][FrameStep]_vars /\ []RowLocal

C7_Witness ==
    /\ pc = "done"
    /\ WellFormed
    /\ Len(df.rows) = 2
    /\ SameOriginals(1, 1)
    /\ ~SameOriginals(1, 2)
    /\ df.rows[1]["has_review"] # df.rows[2]["has_review"]
    /\ df.rows[1]["active_listing"] # df.rows[2]["active_listing"]
    /\ df.rows[1]["is_entire_home"] # df.rows[2]["is_entire_home"]
    /\ \A c \in Range(OriginalCols) : df.rows[1][c] = read_csv(input).rows[1][c]

\* the columns the claim lists as required
Listed == {"number_of_reviews", "minimum_nights", "availability_365", "room_type"}

MissingListed == Listed \ Range(input.header) # {}

\* C8 as stated: with a required column missing the run stops at Load, before
\* any derivation, and writes nothing
C8_LoadTime ==
    MissingListed =>
        /\ pc \in {"Load", "failed"}
        /\ Cols(df) \cap Range(DerivedCols) = {}
        /\ writes = 0

\* the cell that first reads column c
Reader(c) ==
    CASE c = "number_of_reviews" -> "has_review"
      [] c = "minimum_nights" -> "price_per_night"
      [] c = "availability_365" -> "active_listing"
      [] c = "room_type" -> "is_entire_home"

AbortsAtReader ==
    \A c \in Listed \ Range(input.header) :
        /\ writes = 0
        /\ featured = NoFile
        /\ pc # "failed" => StageIndex(pc) <= StageIndex(Reader(c))
        /\ pc = "failed" =>
              Cols(df) \cap Range(DerivedCols)
                  = {d \in Range(DerivedCols) : StageIndex(d) < StageIndex(Reader(c))}

\* C8 amended: with one of the listed columns missing, Load succeeds, the cells
\* before the first one that reads the column run, that cell aborts the run, and
\* nothing is written
C8_FirstReader ==
    /\ []AbortsAtReader
    /\ [](MissingListed => <>(pc = "failed"))

C8_Witness ==
    /\ pc = "failed"
    /\ "room_type" \notin Range(input.header)
    /\ {"has_review", "price_per_night", "active_listing", "seasonal_availability"}
          \subseteq Cols(df)
    /\ writes = 0

OrderStep ==
    WellFormed =>
        /\ pc' = NextStage(pc)
        /\ writes' # writes =>
              /\ pc = "Persist"
              /\ writes = 0
              /\ Range(DerivedCols) \subseteq Range(featured'.header)
              /\ featured' = to_csv(df)
              /\ \A c \in Range(DerivedCols) : Derived(c)

\* C9: on an input with the five columns the cells run once each in the order
\* Load, has_review, price_per_night, active_listing, seasonal_availability,
\* is_entire_home, Persist; the run ends; the table is written exactly once,
\* with all five derived columns on it
C9_Pipeline ==
    /\ [][OrderStep]_vars
    /\ [](WellFormed => <>(pc = "done"))
    /\ [](WellFormed => (writes = IF pc = "done" THEN 1 ELSE 0))

C9_Witness ==
    /\ WellFormed
    /\ pc = "done"
    /\ writes = 1
    /\ Range(DerivedCols) \subseteq Range(featured.header)

====
